---------------------------- MODULE Spec2Model ----------------------------
(***************************************************************************)
(* A model of the OpenCAD rasterisation library (src/opencad.c): the       *)
(* drawing primitives on a caller-owned pixel buffer and the PPM writer.   *)
(*                                                                         *)
(* A pixel buffer is a function from the indices 0..width*height-1 to      *)
(* packed 32-bit colours; pixel (x, y) lives at index y*width + x.  A byte *)
(* stream is a sequence of numbers in 0..255.                              *)
(***************************************************************************)
EXTENDS Integers, Sequences, FiniteSets

VARIABLES
    pixels,     \* the caller's pixel buffer
    width,      \* its width, passed to every operation
    height,     \* its height, passed to every operation
    prev,       \* the buffer as it was when the last call was made
    op,         \* the call just made: "none", "fill", "fill_rect", "fill_circle",
                \* "draw_line", "save", or "trapped" when the call aborted
    args,       \* the arguments of that call
    draws,      \* how many fill_rect, fill_circle and draw_line calls were made
    pc,         \* position inside opencad_save_to_ppm_file
    f,          \* the FILE handle: "NULL", "open" or "closed"
    out,        \* the bytes the stream has accepted, in order
    i,          \* the pixel loop's index
    result,     \* the local `result`, returned at the end
    errno,      \* the C library's errno
    ferr,       \* the stream's error indicator, read by ferror(f)
    closes,     \* how many times fclose has been called
    fail        \* which call failed first, and what the stream held then

vars == <<pixels, width, height, prev, op, args, draws, pc, f, out, i, result,
          errno, ferr, closes, fail>>

drawVars == <<pixels, width, height, prev, op, args, draws>>
saveVars == <<pc, f, out, i, result, errno, ferr, closes, fail>>

---------------------------------------------------------------------------
(* Bounds of the model. *)

\* Width and height of the buffer the drawing calls work on.
W == 3
H == 3
\* Coordinates are drawn from -Pad .. W-1+Pad (and the same for rows).
Pad == 1
\* Largest small rectangle side and circle radius drawn.
MaxSide == 3
MaxR == 3
\* Largest side of a buffer given to the PPM writer with all pixel contents.
MaxDim == 2
\* Most fill_rect, fill_circle and draw_line calls in one run of the driver.
MaxDraws == 2

---------------------------------------------------------------------------
(* C integer arithmetic. *)
(*                                                                         *)
(* An int is a number in INT_MIN..INT_MAX.  A uint32_t colour is held as   *)
(* its 32-bit pattern read as a two's-complement number (0xFF2020FF is     *)
(* -14671617), so that \div and % by powers of two are the shifts and      *)
(* masks of the code.  A size_t argument s is the record [hi, lo] that     *)
(* stands for s.hi * 2^31 + s.lo with 0 <= s.lo < 2^31.  The buffer's own  *)
(* width and height are small and are held as plain numbers.               *)

INT_MAX == (2^30 - 1) + 2^30
INT_MIN == (-INT_MAX) - 1

Abs(a) == IF a < 0 THEN -a ELSE a

\* C's integer division: the quotient truncated toward zero.
CDiv(a, b) ==
    LET q == Abs(a) \div Abs(b)
    IN  IF (a < 0) = (b < 0) THEN q ELSE -q

\* Whether the int sum a + b or the int product a * b leaves INT_MIN..INT_MAX.
AddOverflows(a, b) ==
    \/ a > 0 /\ b > INT_MAX - a
    \/ a < 0 /\ b < INT_MIN - a

MulOverflows(a, b) ==
    /\ a # 0
    /\ b # 0
    /\ Abs(b) > INT_MAX \div Abs(a)
    /\ ~ ( /\ (a < 0) # (b < 0)
           /\ INT_MAX % Abs(a) = Abs(a) - 1
           /\ Abs(b) = (INT_MAX \div Abs(a)) + 1 )

\* The sum and the product as a 32-bit register holds them (two's complement).
WrapAdd(a, b) ==
    IF a > 0 /\ b > INT_MAX - a
    THEN ((a - 2^30) - 2^30) + ((b - 2^30) - 2^30)
    ELSE IF a < 0 /\ b < INT_MIN - a
         THEN ((a + 2^30) + 2^30) + ((b + 2^30) + 2^30)
         ELSE a + b

WrapNeg(a) == IF a = INT_MIN THEN INT_MIN ELSE -a

RECURSIVE WrapMul(_, _)
WrapMul(a, b) ==
    IF b = 0 THEN 0
    ELSE IF b < 0 THEN WrapNeg(WrapMul(a, WrapNeg(b)))
    ELSE LET half == WrapMul(a, b \div 2)
         IN  WrapAdd(WrapAdd(half, half), IF b % 2 = 1 THEN a ELSE 0)

\* Signed overflow is undefined behaviour.  The outcomes a build produces: the
\* wrapped 32-bit value ("wrap", the plain build), or the program is aborted
\* at the overflowing operation ("trap", a build with -ftrapv or a sanitizer).
UBOutcomes == {"wrap", "trap"}

\* A size_t value below 2^31, and the values 2^31 and 2^32 + 1.
Size(n) == [hi |-> 0, lo |-> n]
SizeTwoPow31 == [hi |-> 1, lo |-> 0]
SizeTwoPow32Plus1 == [hi |-> 2, lo |-> 1]

\* (int) s for a size_t s: the low 32 bits, read as a signed number.
CastInt(s) == IF s.hi % 2 = 1 THEN (s.lo - 2^30) - 2^30 ELSE s.lo

---------------------------------------------------------------------------
(* Colours used by the callers in src/example.c. *)

BACKGROUND_COLOR == -14671840
FOREGROUND_COLOR == -14671617
GREEN_COLOR == -14614752
\* 0xFF000000, the background of brick_example.
BLACK_COLOR == -16777216

DrawColors == {FOREGROUND_COLOR, GREEN_COLOR}
FillColors == {BACKGROUND_COLOR, BLACK_COLOR}

---------------------------------------------------------------------------
(* The drawing primitives. *)

\* A static buffer: zero-initialised.
ZeroBuffer(n) == [k \in 0..(n - 1) |-> 0]

\* for (i = 0; i < width*height; ++i) pixels[i] = color;
opencad_fill(px, pixels_width, pixels_height, color) ==
    [k \in DOMAIN px |->
        IF k < pixels_width * pixels_height THEN color ELSE px[k]]

\* The buffer with every index of `written` set to color.
Store(px, written, color) ==
    [k \in DOMAIN px |-> IF k \in written THEN color ELSE px[k]]

\* The rows (columns) of the buffer whose offset from y0 (x0) is a value of the
\* loop variable dy in 0 .. (int)h - 1 (dx in 0 .. (int)w - 1).
RectRows(pixels_height, y0, h) ==
    {y \in 0..(pixels_height - 1) : 0 <= y - y0 /\ y - y0 < CastInt(h)}
RectCols(pixels_width, x0, w) ==
    {x \in 0..(pixels_width - 1) : 0 <= x - x0 /\ x - x0 < CastInt(w)}

\* The loops run dy over 0 .. (int)h - 1 and dx over 0 .. (int)w - 1 and write
\* pixel (x0 + dx, y0 + dy) when it is inside the buffer.  A sum x0 + dx or
\* y0 + dy that passes INT_MAX wraps to a negative number, which is no column
\* or row of the buffer, so the wrapped sums write nothing.
opencad_fill_rect(px, pixels_width, pixels_height, x0, y0, w, h, color) ==
    Store(px,
          {y * pixels_width + x : y \in RectRows(pixels_height, y0, h),
                                  x \in RectCols(pixels_width, x0, w)},
          color)

\* int x = x0 + dx overflows for the largest dx, (int)w - 1; the inner loop
\* runs only in a row of the buffer.
RectColOverflows(pixels_height, x0, y0, w, h) ==
    /\ RectRows(pixels_height, y0, h) # {}
    /\ CastInt(w) > 0
    /\ x0 > (INT_MAX - CastInt(w)) + 1

\* int y = y0 + dy overflows for the largest dy, (int)h - 1.
RectRowOverflows(y0, h) ==
    /\ CastInt(h) > 0
    /\ y0 > (INT_MAX - CastInt(h)) + 1

RectOverflows(pixels_height, x0, y0, w, h) ==
    \/ RectColOverflows(pixels_height, x0, y0, w, h)
    \/ RectRowOverflows(y0, h)

\* The buffer when the call is aborted at its first overflowing sum.  x0 + dx
\* overflows in the first row of the buffer the loop comes to, after that
\* row's columns are written; otherwise y0 + dy overflows after every row of
\* the buffer from y0 on is written.
opencad_fill_rect_aborted(px, pixels_width, pixels_height, x0, y0, w, h, color) ==
    IF RectColOverflows(pixels_height, x0, y0, w, h)
    THEN LET rows == RectRows(pixels_height, y0, h)
             first == CHOOSE y \in rows : \A z \in rows : y <= z
         IN  Store(px, {first * pixels_width + x :
                            x \in RectCols(pixels_width, x0, w)}, color)
    ELSE opencad_fill_rect(px, pixels_width, pixels_height, x0, y0, w, h, color)

\* The test dx*dx + dy*dy <= r*r of pixel (x, y), in 32-bit arithmetic.
InCircle(x, y, cx, cy, r) ==
    LET dx == x - cx
        dy == y - cy
    IN  WrapAdd(WrapMul(dx, dx), WrapMul(dy, dy)) <= WrapMul(r, r)

\* The rows and columns of the bounding box that lie inside the buffer: the
\* loops run y over y1..y2 and x over x1..x2 and test only these.  The box
\* corners cx - r, cx + r, cy - r, cy + r stay inside the int range for the
\* centres and radii drawn here.
CircleRows(pixels_height, cy, r) ==
    {y \in 0..(pixels_height - 1) : cy - r <= y /\ y <= cy + r}

CircleCols(pixels_width, cx, r) ==
    {x \in 0..(pixels_width - 1) : cx - r <= x /\ x <= cx + r}

opencad_fill_circle(px, pixels_width, pixels_height, cx, cy, r, color) ==
    Store(px,
          {p[2] * pixels_width + p[1] :
             p \in {q \in CircleCols(pixels_width, cx, r)
                            \X CircleRows(pixels_height, cy, r) :
                      InCircle(q[1], q[2], cx, cy, r)}},
          color)

\* Whether the call evaluates an int expression that overflows: the first
\* pixel tested already computes r*r.
CircleOverflows(pixels_width, pixels_height, cx, cy, r) ==
    \E x \in CircleCols(pixels_width, cx, r),
       y \in CircleRows(pixels_height, cy, r) :
        \/ MulOverflows(x - cx, x - cx)
        \/ MulOverflows(y - cy, y - cy)
        \/ AddOverflows(WrapMul(x - cx, x - cx), WrapMul(y - cy, y - cy))
        \/ MulOverflows(r, r)

\* int c = y1 - dy*x1/dx;
LineIntercept(x1, y1, dx, dy) == y1 - CDiv(dy * x1, dx)

\* (The span without `if (sy1 > sy2) swap_int(&sy1, &sy2)`.)
LineSpanNoSwap(dx, dy, c, x) ==
    <<CDiv(dy * x, dx) + c, CDiv(dy * (x + 1), dx) + c>>

\* sy1, sy2 of column x, swapped into ascending order.
LineSpan(dx, dy, c, x) ==
    LET sy1 == CDiv(dy * x, dx) + c
        sy2 == CDiv(dy * (x + 1), dx) + c
    IN  IF sy1 > sy2 THEN <<sy2, sy1>> ELSE <<sy1, sy2>>

\* (The span without `if (y1 > y2) swap_int(&y1, &y2)`.)
VerticalSpanNoSwap(y1, y2) == <<y1, y2>>

\* The inclusive row span of the vertical case, y1 and y2 swapped into order.
VerticalSpan(y1, y2) == IF y1 > y2 THEN <<y2, y1>> ELSE <<y1, y2>>

\* Each loop runs over an inclusive range and writes only inside the buffer.
\* The products dy*x1, dy*x and dy*(x + 1) stay inside the int range for the
\* coordinates drawn here.
opencad_draw_line(px, pixels_width, pixels_height, x1, y1, x2, y2, color) ==
    LET dx == x2 - x1
        dy == y2 - y1
    IN  IF dx # 0
        THEN LET c  == LineIntercept(x1, y1, dx, dy)
                 xa == IF x1 > x2 THEN x2 ELSE x1
                 xb == IF x1 > x2 THEN x1 ELSE x2
                 cols == {x \in 0..(pixels_width - 1) : xa <= x /\ x <= xb}
                 rows(x) == {y \in 0..(pixels_height - 1) :
                               /\ LineSpan(dx, dy, c, x)[1] <= y
                               /\ y <= LineSpan(dx, dy, c, x)[2]}
             IN  Store(px,
                       UNION {{y * pixels_width + x : y \in rows(x)} : x \in cols},
                       color)
        ELSE LET x == x1
                 s == VerticalSpan(y1, y2)
             IN  IF 0 <= x /\ x < pixels_width
                 THEN Store(px,
                            {y * pixels_width + x :
                               y \in {r \in 0..(pixels_height - 1) :
                                        s[1] <= r /\ r <= s[2]}},
                            color)
                 ELSE px

---------------------------------------------------------------------------
(* The PPM writer. *)

\* The callers' buffer dimensions and the colour 0xFFFF3030 of their axis lines.
WIDTH == 800
HEIGHT == 600
AXIS_COLOR == -53200

\* The three bytes written for a pixel, in the wrong order.
PixelBytesReversed(pixel) ==
    << (pixel \div (2^16)) % 256, (pixel \div (2^8)) % 256, pixel % 256 >>

\* uint8_t bytes[3] = {(pixel>>(8*0))&0xFF, (pixel>>(8*1))&0xFF, (pixel>>(8*2))&0xFF};
PixelBytes(pixel) ==
    << (pixel \div (2^(8*0))) % 256,
       (pixel \div (2^(8*1))) % 256,
       (pixel \div (2^(8*2))) % 256 >>

\* %zu: the decimal digits of n, as character codes.
RECURSIVE ToDecimal(_)
ToDecimal(n) ==
    IF n < 10 THEN << 48 + n >>
    ELSE Append(ToDecimal(n \div 10), 48 + (n % 10))

\* fprintf(f, "P6\n%zu %zu 255\n", width, height);
PpmHeader(w, h) ==
    <<80, 54, 10>> \o ToDecimal(w) \o <<32>> \o ToDecimal(h) \o <<32, 50, 53, 53, 10>>

\* errno values the C library sets: ENOENT and EACCES from fopen, EIO and
\* ENOSPC from a write.
OpenErrnos == {2, 13}
WriteErrnos == {5, 28}

NoFailure == [at |-> "none", code |-> 0, len |-> 0]

\* A return that leaves the function at once, skipping the defer label.
return_direct(value) ==
    /\ result' = value
    /\ pc' = "returned"

\* #define return_defer(value) do { result = (value); goto defer; } while (0)
return_defer(value) ==
    /\ result' = value
    /\ pc' = "defer"

\* A check of the stream that never sees the error.
StreamCheckMissing(next) ==
    /\ pc' = next
    /\ UNCHANGED result

\* if (ferror(f)) return_defer(errno);  and otherwise on to `next`.
StreamCheck(next) ==
    IF ferr'
    THEN return_defer(errno')
    ELSE /\ pc' = next
         /\ UNCHANGED result

\* The caller enters opencad_save_to_ppm_file: int result = 0; FILE *f = NULL;
\* No call is in progress and the caller is at a statement of its own.
SaveCall ==
    /\ pc = "idle"
    /\ op = "none"
    /\ op' = "save"
    /\ pc' = "fopen"
    /\ result' = 0
    /\ f' = "NULL"
    /\ UNCHANGED <<pixels, width, height, prev, args, draws>>
    /\ UNCHANGED <<out, i, errno, ferr, closes, fail>>

\* f = fopen(file_path, "wb"); if (f == NULL) return_defer(errno);
SaveOpen ==
    /\ pc = "fopen"
    /\ \/ /\ f' = "open"
          /\ pc' = "header"
          /\ UNCHANGED <<result, errno, fail>>
       \/ \E e \in OpenErrnos :
             /\ f' = "NULL"
             /\ errno' = e
             /\ fail' = [at |-> "open", code |-> e, len |-> Len(out)]
             /\ return_defer(errno')
    /\ UNCHANGED <<out, i, ferr, closes>>
    /\ UNCHANGED drawVars

\* fprintf(f, "P6\n%zu %zu 255\n", width, height); if (ferror(f)) ...
\* A failing write may leave any proper prefix of its bytes in the stream.
SaveHeader ==
    /\ pc = "header"
    /\ \/ /\ out' = out \o PpmHeader(width, height)
          /\ UNCHANGED <<errno, ferr, fail>>
       \/ \E e \in WriteErrnos, k \in 0..(Len(PpmHeader(width, height)) - 1) :
             /\ out' = out \o SubSeq(PpmHeader(width, height), 1, k)
             /\ errno' = e
             /\ ferr' = TRUE
             /\ fail' = [at |-> "header", code |-> e, len |-> Len(out')]
    /\ StreamCheck("loop")
    /\ i' = 0
    /\ UNCHANGED <<f, closes>>
    /\ UNCHANGED drawVars

\* One turn of the loop: fwrite(bytes, sizeof(bytes), 1, f); if (ferror(f)) ...
SavePixel ==
    /\ pc = "loop"
    /\ i < width * height
    /\ \/ /\ out' = out \o PixelBytes(pixels[i])
          /\ UNCHANGED <<errno, ferr, fail>>
       \/ \E e \in WriteErrnos, k \in 0..2 :
             /\ out' = out \o SubSeq(PixelBytes(pixels[i]), 1, k)
             /\ errno' = e
             /\ ferr' = TRUE
             /\ fail' = [at |-> "pixel", code |-> e, len |-> Len(out')]
    /\ StreamCheck("loop")
    /\ i' = IF ferr' THEN i ELSE i + 1
    /\ UNCHANGED <<f, closes>>
    /\ UNCHANGED drawVars

\* The loop condition i < width*height fails: fall through to defer.
SaveLoopEnd ==
    /\ pc = "loop"
    /\ ~ (i < width * height)
    /\ pc' = "defer"
    /\ UNCHANGED <<f, out, i, result, errno, ferr, closes, fail>>
    /\ UNCHANGED drawVars

\* defer: if (f) fclose(f); return result;
\* fclose may itself fail and set errno; its return value is not looked at.
SaveDefer ==
    /\ pc = "defer"
    /\ IF f # "NULL"
       THEN /\ f' = "closed"
            /\ closes' = closes + 1
            /\ \E e \in {errno} \cup WriteErrnos : errno' = e
       ELSE UNCHANGED <<f, closes, errno>>
    /\ pc' = "returned"
    /\ UNCHANGED <<out, i, result, ferr, fail>>
    /\ UNCHANGED drawVars

---------------------------------------------------------------------------
(* The calls a driver makes, with their arguments drawn from bounded sets.  *)
(* A call to a drawing function is one step; it leaves its name, its       *)
(* arguments and the buffer it found on record until Return, the step with *)
(* which the driver goes on to its next statement.                         *)

\* The buffers a drawing call may find after earlier calls: the zeroed static
\* buffer, the buffer after opencad_fill, and a checkerboard of one-pixel cells.
Checker(n, pw) ==
    [k \in 0..(n - 1) |->
        IF ((k % pw) + (k \div pw)) % 2 = 0 THEN FOREGROUND_COLOR
                                             ELSE BACKGROUND_COLOR]

InitBuffers ==
    { ZeroBuffer(W * H),
      opencad_fill(ZeroBuffer(W * H), W, H, BACKGROUND_COLOR),
      Checker(W * H, W) }

Xs == (-Pad)..(W - 1 + Pad)
Ys == (-Pad)..(H - 1 + Pad)

\* size_t arguments: small sizes, the largest size that fits an int, and sizes
\* that do not fit an int.
Sizes == {Size(n) : n \in 0..MaxSide}
           \cup {Size(W + Pad + 1), Size(INT_MAX), SizeTwoPow31, SizeTwoPow32Plus1}

\* int radii: small ones, the largest whose square fits an int, and the first
\* whose square does not.
Radii == (0..MaxR) \cup {46340, 46341}

SaveIdle ==
    /\ pc = "idle" /\ f = "NULL" /\ out = <<>> /\ i = 0 /\ result = 0
    /\ ferr = FALSE /\ closes = 0 /\ fail = NoFailure

\* The program starts: the static buffer is zeroed and nothing was called.
Init ==
    /\ pixels = ZeroBuffer(W * H)
    /\ width = W
    /\ height = H
    /\ prev = pixels
    /\ op = "none"
    /\ args = <<>>
    /\ draws = 0
    /\ SaveIdle
    /\ errno = 0

\* The driver is about to make the last of its drawing calls, on a buffer its
\* earlier calls have left.
InitDraw ==
    /\ pixels \in InitBuffers
    /\ width = W
    /\ height = H
    /\ prev = pixels
    /\ op = "none"
    /\ args = <<>>
    /\ draws = MaxDraws - 1
    /\ SaveIdle
    /\ errno = 0

\* opencad_fill(pixels, width, height, color)
Fill ==
    /\ op = "none"
    /\ \E color \in FillColors :
          /\ pixels' = opencad_fill(pixels, width, height, color)
          /\ args' = [color |-> color]
    /\ prev' = pixels
    /\ op' = "fill"
    /\ UNCHANGED <<width, height, draws>>
    /\ UNCHANGED saveVars

FillRect ==
    /\ op = "none"
    /\ draws < MaxDraws
    /\ draws' = draws + 1
    /\ \E x0 \in Xs, y0 \in Ys, w \in Sizes, h \in Sizes, color \in DrawColors,
          ub \in UBOutcomes :
          /\ args' = [x0 |-> x0, y0 |-> y0, w |-> w, h |-> h, color |-> color]
          /\ IF ub = "trap" /\ RectOverflows(height, x0, y0, w, h)
             THEN /\ pixels' = opencad_fill_rect_aborted(pixels, width, height,
                                                         x0, y0, w, h, color)
                  /\ op' = "trapped"
             ELSE /\ pixels' = opencad_fill_rect(pixels, width, height,
                                                 x0, y0, w, h, color)
                  /\ op' = "fill_rect"
    /\ prev' = pixels
    /\ UNCHANGED <<width, height>>
    /\ UNCHANGED saveVars

FillCircle ==
    /\ op = "none"
    /\ draws < MaxDraws
    /\ draws' = draws + 1
    /\ \E cx \in Xs, cy \in Ys, r \in Radii, color \in DrawColors, ub \in UBOutcomes :
          /\ args' = [cx |-> cx, cy |-> cy, r |-> r, color |-> color]
          /\ IF ub = "trap" /\ CircleOverflows(width, height, cx, cy, r)
             THEN pixels' = pixels /\ op' = "trapped"
             ELSE /\ pixels' = opencad_fill_circle(pixels, width, height,
                                                   cx, cy, r, color)
                  /\ op' = "fill_circle"
    /\ prev' = pixels
    /\ UNCHANGED <<width, height>>
    /\ UNCHANGED saveVars

DrawLine ==
    /\ op = "none"
    /\ draws < MaxDraws
    /\ draws' = draws + 1
    /\ \E x1 \in Xs, y1 \in Ys, x2 \in Xs, y2 \in Ys, color \in DrawColors :
          /\ pixels' = opencad_draw_line(pixels, width, height, x1, y1, x2, y2, color)
          /\ args' = [x1 |-> x1, y1 |-> y1, x2 |-> x2, y2 |-> y2, color |-> color]
    /\ prev' = pixels
    /\ op' = "draw_line"
    /\ UNCHANGED <<width, height>>
    /\ UNCHANGED saveVars

\* The call has returned and the driver goes on to its next statement.  The
\* callee's locals and its stream are gone; the buffer and errno stay.  A
\* driver goes on after a save only when it returned 0 (src/example.c), and a
\* call that was aborted never returns.
Return ==
    /\ \/ op \in {"fill", "fill_rect", "fill_circle", "draw_line"}
       \/ op = "save" /\ pc = "returned" /\ result = 0
    /\ op' = "none"
    /\ args' = <<>>
    /\ prev' = pixels
    /\ pc' = "idle"
    /\ f' = "NULL"
    /\ out' = <<>>
    /\ i' = 0
    /\ result' = 0
    /\ ferr' = FALSE
    /\ closes' = 0
    /\ fail' = NoFailure
    /\ UNCHANGED <<pixels, width, height, draws, errno>>

\* The buffers given to the PPM writer: MaxDim x MaxDim or smaller with
\* rotating or uniform contents, and two empty buffers with long dimensions.
Palette == <<FOREGROUND_COLOR, GREEN_COLOR, AXIS_COLOR, FOREGROUND_COLOR % (2^24)>>

SaveDims ==
    {<<w, h>> : w \in 1..MaxDim, h \in 1..MaxDim} \cup {<<WIDTH, 0>>, <<0, HEIGHT>>}

SaveBuffers(n) ==
    {[k \in 0..(n - 1) |-> Palette[((k * m + s) % Len(Palette)) + 1]] :
        s \in 0..(Len(Palette) - 1), m \in 0..1}

InitSave ==
    /\ \E d \in SaveDims :
          /\ width = d[1]
          /\ height = d[2]
          /\ pixels \in SaveBuffers(d[1] * d[2])
    /\ prev = pixels
    /\ op = "none"
    /\ args = <<>>
    /\ draws = 0
    /\ SaveIdle
    /\ errno \in {0} \cup OpenErrnos

SaveNext == SaveCall \/ SaveOpen \/ SaveHeader \/ SavePixel \/ SaveLoopEnd \/ SaveDefer

Next == Fill \/ FillRect \/ FillCircle \/ DrawLine \/ SaveNext \/ Return

Spec == Init /\ [][Next]_vars

\* One operation at a time, on the buffers earlier calls have left.
SpecRect == InitDraw /\ [][Fill \/ FillRect \/ Return]_vars
SpecCircle == InitDraw /\ [][Fill \/ FillCircle \/ Return]_vars
SpecLine == InitDraw /\ [][Fill \/ DrawLine \/ Return]_vars
SpecSave == InitSave /\ [][Fill \/ SaveNext \/ Return]_vars

---------------------------------------------------------------------------
(* Properties of the PPM writer, checked under SpecSave. *)

Min(a, b) == IF a < b THEN a ELSE b
Max(a, b) == IF a < b THEN b ELSE a

\* The decimal numeral of n < 1000, written out digit by digit.
Numeral(n) ==
    IF n < 10 THEN << 48 + n >>
    ELSE IF n < 100 THEN << 48 + (n \div 10), 48 + (n % 10) >>
    ELSE << 48 + (n \div 100), 48 + ((n \div 10) % 10), 48 + (n % 10) >>

\* "P6\n<width> <height>\n255\n" and "P6\n<width> <height> 255\n".
HeaderWithNewline == <<80, 54, 10>> \o Numeral(width) \o <<32>> \o Numeral(height)
                        \o <<10, 50, 53, 53, 10>>
HeaderWithSpace == <<80, 54, 10>> \o Numeral(width) \o <<32>> \o Numeral(height)
                        \o <<32, 50, 53, 53, 10>>

StartsWith(seq, prefix) ==
    /\ Len(prefix) <= Len(seq)
    /\ SubSeq(seq, 1, Len(prefix)) = prefix

Succeeded == pc = "returned" /\ result = 0

\* C1 as stated: on a successful save the bytes before the pixel data are
\* exactly "P6\n<width> <height>\n255\n" (a newline between height and 255).
C1_HeaderNewlineBefore255 ==
    Succeeded => StartsWith(out, HeaderWithNewline)

\* What the code writes instead: on a successful save the stream begins with
\* "P6\n<width> <height> 255\n", a space where the format requires a
\* newline, and the pixel data follow at once (a 2x2 file begins
\* "P6\n2 2 255\n").
C1_HeaderSpaceBefore255 ==
    Succeeded =>
        /\ StartsWith(out, HeaderWithSpace)
        /\ Len(out) = Len(HeaderWithSpace) + 3 * width * height
        /\ (width = 2 /\ height = 2) =>
              StartsWith(out, <<80, 54, 10, 50, 32, 50, 32, 50, 53, 53, 10>>)

\* C2: on a successful save the data after the header are width*height*3
\* bytes; for each index k in ascending order the three bytes are bits 0-7,
\* 8-15, 16-23 of pixels[k]; bits 24-31 do not reach the output.
C2_PixelData ==
    Succeeded =>
        LET hl == Len(PpmHeader(width, height))
            rgb(k) == pixels[k] % (2^24)
        IN  /\ Len(out) = hl + width * height * 3
            /\ \A k \in 0..(width * height - 1) :
                  /\ out[hl + 3 * k + 1] = rgb(k) % 256
                  /\ out[hl + 3 * k + 2] = (rgb(k) \div 256) % 256
                  /\ out[hl + 3 * k + 3] = rgb(k) \div 65536

\* A successful save of a 2x2 buffer holding two pixels that differ in their
\* alpha byte only, and a pixel whose three colour bytes are not all equal.
C2_Witness ==
    /\ Succeeded
    /\ width = 2 /\ height = 2
    /\ \E k, m \in DOMAIN pixels :
          /\ pixels[k] # pixels[m]
          /\ pixels[k] % (2^24) = pixels[m] % (2^24)
    /\ \E k \in DOMAIN pixels : pixels[k] % 256 # (pixels[k] \div 65536) % 256

\* C3: the save returns 0 exactly when the open and every header and pixel
\* write succeeded; after the first failing call no further byte enters the
\* stream and the value returned is the nonzero errno of that failure.
C3_ReturnValue ==
    /\ fail.at # "none" => Len(out) = fail.len
    /\ pc = "returned" =>
          /\ (result = 0) <=> (fail.at = "none")
          /\ fail.at = "none" =>
                Len(out) = Len(PpmHeader(width, height)) + 3 * width * height
          /\ fail.at # "none" => result = fail.code /\ result # 0

\* A save that returned the errno of a pixel write that failed part-way
\* through the buffer, with fclose having changed errno afterwards.
C3_Witness ==
    /\ pc = "returned"
    /\ fail.at = "pixel"
    /\ i = 1
    /\ width * height > 2
    /\ result = fail.code
    /\ errno # result

\* C4: a handle that was opened is closed exactly once before the function
\* returns, on every exit path; when the open failed no close is attempted.
C4_ClosedOnce ==
    /\ closes <= 1
    /\ (f = "closed") <=> (closes = 1)
    /\ fail.at = "open" => f = "NULL" /\ closes = 0
    /\ pc = "returned" =>
          /\ f # "open"
          /\ fail.at # "open" => f = "closed" /\ closes = 1

\* A save that returned through the pixel-write error path with the handle
\* closed once.
C4_Witness ==
    /\ pc = "returned"
    /\ fail.at = "pixel"
    /\ f = "closed"
    /\ closes = 1

---------------------------------------------------------------------------
(* Properties of the drawing primitives, checked under SpecRect,            *)
(* SpecCircle and SpecLine.                                                 *)

PX(k) == k % width
PY(k) == k \div width

\* n < s for a number n and a size_t value s.
BelowSize(n, s) == s.hi > 0 \/ n < s.lo

\* Pixel (x, y) lies in [x0, x0+w) x [y0, y0+h).
InRect(x, y, a) ==
    /\ a.x0 <= x /\ BelowSize(x - a.x0, a.w)
    /\ a.y0 <= y /\ BelowSize(y - a.y0, a.h)

\* C5 as stated: for any x0, y0 and any non-negative w, h, after
\* opencad_fill_rect a pixel equals color if it lies in the rectangle (and
\* in the buffer), and every other pixel keeps its previous value.
C5_FillRectAnySize ==
    op = "fill_rect" =>
        \A k \in DOMAIN pixels :
            pixels[k] = IF InRect(PX(k), PY(k), args) THEN args.color ELSE prev[k]

\* C5 for sizes that fit an int (w, h <= INT_MAX) and a call that returns:
\* the statement holds.  (A build that traps signed overflow aborts the call
\* when x0 + w - 1 or y0 + h - 1 passes INT_MAX.)
C5_FillRectIntSizes ==
    (op = "fill_rect" /\ args.w.hi = 0 /\ args.h.hi = 0) =>
        \A k \in DOMAIN pixels :
            pixels[k] = IF InRect(PX(k), PY(k), args) THEN args.color ELSE prev[k]

\* (x-cx)^2 + (y-cy)^2 <= r^2 over the integers; when r*r exceeds INT_MAX it
\* exceeds the left side too, which fits an int for the pixels of the model.
InDisk(x, y, a) ==
    \/ MulOverflows(a.r, a.r)
    \/ (x - a.cx) * (x - a.cx) + (y - a.cy) * (y - a.cy) <= a.r * a.r

\* C6 as stated: for any centre and any r >= 0, after opencad_fill_circle
\* the pixels with (x-cx)^2 + (y-cy)^2 <= r^2 equal color and every other
\* pixel keeps its previous value.
C6_FillCircleAnyRadius ==
    op = "fill_circle" =>
        \A k \in DOMAIN pixels :
            pixels[k] = IF InDisk(PX(k), PY(k), args) THEN args.color ELSE prev[k]

\* C6 for radii whose square fits an int (r <= 46340): the statement holds.
C6_FillCircleSmallRadius ==
    (op = "fill_circle" /\ ~ MulOverflows(args.r, args.r)) =>
        \A k \in DOMAIN pixels :
            pixels[k] = IF InDisk(PX(k), PY(k), args) THEN args.color ELSE prev[k]

InBuffer(x, y) == 0 <= x /\ x < width /\ 0 <= y /\ y < height

\* C7: a vertical line with both endpoints in the buffer sets exactly the
\* pixels (x1, y), min(y1,y2) <= y <= max(y1,y2), whichever endpoint comes
\* first, and leaves every other pixel unchanged; a zero-length line sets
\* exactly its one pixel.
C7_VerticalLine ==
    ( /\ op = "draw_line"
      /\ args.x1 = args.x2
      /\ InBuffer(args.x1, args.y1)
      /\ InBuffer(args.x2, args.y2) ) =>
        \A k \in DOMAIN pixels :
            pixels[k] = IF /\ PX(k) = args.x1
                           /\ Min(args.y1, args.y2) <= PY(k)
                           /\ PY(k) <= Max(args.y1, args.y2)
                        THEN args.color
                        ELSE prev[k]

\* A vertical line given bottom endpoint first that changed three pixels.
C7_Witness ==
    /\ op = "draw_line"
    /\ args.x1 = args.x2
    /\ InBuffer(args.x1, args.y1)
    /\ InBuffer(args.x2, args.y2)
    /\ args.y1 = args.y2 + 2
    /\ Cardinality({k \in DOMAIN pixels : pixels[k] # prev[k]}) = 3

\* C8 as stated: for all integer endpoints, negative ones included,
\* draw_line(x1,y1,x2,y2) and draw_line(x2,y2,x1,y1) give the same buffer.
C8_EndpointSymmetry ==
    op = "draw_line" =>
        pixels = opencad_draw_line(prev, width, height,
                                   args.x2, args.y2, args.x1, args.y1, args.color)

\* C8 for endpoints whose x coordinates are both >= 0 or both <= 0: the two
\* calls give the same buffer.
C8_SymmetryOneSide ==
    ( /\ op = "draw_line"
      /\ \/ args.x1 >= 0 /\ args.x2 >= 0
         \/ args.x1 <= 0 /\ args.x2 <= 0 ) =>
        pixels = opencad_draw_line(prev, width, height,
                                   args.x2, args.y2, args.x1, args.y1, args.color)

\* The indices the call stored its colour to: those that hold the colour when
\* the same call is made on a zeroed buffer.
Stored ==
    LET drawn == opencad_draw_line(ZeroBuffer(width * height), width, height,
                                   args.x1, args.y1, args.x2, args.y2, args.color)
    IN  {k \in DOMAIN pixels : drawn[k] = args.color}

\* The rows of column x the call stored its colour to.
StoredRows(x) == {y \in 0..(height - 1) : (y * width + x) \in Stored}

\* The columns from min(x1,x2) to max(x1,x2).
LineColumns == Min(args.x1, args.x2)..Max(args.x1, args.x2)

\* The two ends dy*x/dx + c and dy*(x+1)/dx + c of column x's row span.
NearEnd(x) ==
    CDiv((args.y2 - args.y1) * x, args.x2 - args.x1)
        + (args.y1 - CDiv((args.y2 - args.y1) * args.x1, args.x2 - args.x1))
FarEnd(x) == NearEnd(x + 1)

\* A non-vertical draw_line call whose columns all lie in the buffer.
ColumnsInBuffer ==
    /\ op = "draw_line"
    /\ args.x1 # args.x2
    /\ 0 <= Min(args.x1, args.x2)
    /\ Max(args.x1, args.x2) < width

\* C9 as stated: a non-vertical line whose columns all lie in the buffer
\* leaves no gaps: every column from min(x1,x2) to max(x1,x2) has drawn
\* pixels, and the far end dy*(x+1)/dx + c of column x's span is a drawn row
\* of column x and of column x+1, so the drawn pixels form one connected run
\* from the first to the last column.
C9_NoGaps ==
    ColumnsInBuffer =>
        /\ \A x \in LineColumns : StoredRows(x) # {}
        /\ \A x \in LineColumns \ {Max(args.x1, args.x2)} :
              /\ FarEnd(x) \in StoredRows(x)
              /\ FarEnd(x) \in StoredRows(x + 1)

\* C9 amended: a non-vertical line whose columns all lie in the buffer AND
\* whose row spans (from dy*x/dx + c to dy*(x+1)/dx + c, for every column x
\* from min(x1,x2) to max(x1,x2)) all lie in the buffer leaves no gaps: the
\* call sets, in every such column, exactly the rows of its span, at least
\* one; the far end of column x's span is a row set in column x and in column
\* x+1; nothing is set in another column, and every other pixel is unchanged.
C9_NoGapsInBuffer ==
    ( /\ ColumnsInBuffer
      /\ \A x \in LineColumns :
            /\ 0 <= Min(NearEnd(x), FarEnd(x))
            /\ Max(NearEnd(x), FarEnd(x)) < height ) =>
        /\ \A k \in DOMAIN pixels :
              pixels[k] = IF k \in Stored THEN args.color ELSE prev[k]
        /\ \A k \in Stored : PX(k) \in LineColumns
        /\ \A x \in LineColumns :
              /\ StoredRows(x) # {}
              /\ StoredRows(x) = Min(NearEnd(x), FarEnd(x))..Max(NearEnd(x), FarEnd(x))
        /\ \A x \in LineColumns \ {Max(args.x1, args.x2)} :
              /\ FarEnd(x) \in StoredRows(x)
              /\ FarEnd(x) \in StoredRows(x + 1)

\* A descending line from (2,1) to (0,2), second endpoint left of the first,
\* on a buffer that held other colours: all three columns are drawn, column 1
\* on two rows, and neighbouring columns share a drawn row.
C9_Witness ==
    /\ ColumnsInBuffer
    /\ args.x1 = 2 /\ args.y1 = 1
    /\ args.x2 = 0 /\ args.y2 = 2
    /\ \E k \in DOMAIN prev : prev[k] # 0 /\ prev[k] # args.color
    /\ \A x \in LineColumns :
          /\ 0 <= Min(NearEnd(x), FarEnd(x))
          /\ Max(NearEnd(x), FarEnd(x)) < height
    /\ \A x \in 0..2 : StoredRows(x) # {}
    /\ StoredRows(1) = {1, 2}
    /\ \A x \in 0..1 : StoredRows(x) \cap StoredRows(x + 1) # {}
    /\ \A k \in Stored : pixels[k] = args.color

\* C10 as stated: every pixel the call changes satisfies
\* min(x1,x2) <= x <= max(x1,x2) and min(y1,y2) <= y <= max(y1,y2).
C10_WithinExtent ==
    op = "draw_line" =>
        \A k \in DOMAIN pixels :
            pixels[k] # prev[k] =>
                /\ Min(args.x1, args.x2) <= PX(k) /\ PX(k) <= Max(args.x1, args.x2)
                /\ Min(args.y1, args.y2) <= PY(k) /\ PY(k) <= Max(args.y1, args.y2)

\* C10 for the columns alone: every changed pixel lies in a column between
\* the endpoints.
C10_WithinColumns ==
    op = "draw_line" =>
        \A k \in DOMAIN pixels :
            pixels[k] # prev[k] =>
                Min(args.x1, args.x2) <= PX(k) /\ PX(k) <= Max(args.x1, args.x2)

===========================================================================
